---- MODULE Spec2Model ----
(***************************************************************************)
(* The query highlighter of HighlightedTextarea.tsx: the tokenizer and the *)
(* renderer of parseAndHighlight, the escapeHtml helper, and the component *)
(* state (value, highlightedHtml) that drives them.                        *)
(*                                                                         *)
(* A JavaScript string is modelled as a sequence of one-character strings; *)
(* source offsets are 0-based, sequence indices 1-based.                   *)
(***************************************************************************)
EXTENDS Integers, Sequences, FiniteSets, TLC

(* Longest text the typing action builds, in characters. *)
MaxLen == 4

(* U+201D RIGHT DOUBLE QUOTATION MARK, one code unit of the input. *)
RDQUO == "rdquo"

(* ---------------------------------------------------------------------- *)
(* String primitives                                                      *)
(* ---------------------------------------------------------------------- *)
Min(a, b) == IF a < b THEN a ELSE b

(* text[p] *)
charAt(t, p) == t[p + 1]

(* text.substring(a, b), for 0 <= a *)
substring(t, a, b) == SubSeq(t, a + 1, Min(b, Len(t)))

(* text.substr(a, len) *)
substr(t, a, len) == SubSeq(t, a + 1, Min(a + len, Len(t)))

LowerCase == <<"a", "b", "c", "d", "e", "f", "g", "h", "i", "j", "k", "l", "m", "n", "o", "p", "q", "r", "s", "t", "u", "v", "w", "x", "y", "z">>

UpperCase == <<"A", "B", "C", "D", "E", "F", "G", "H", "I", "J", "K", "L", "M", "N", "O", "P", "Q", "R", "S", "T", "U", "V", "W", "X", "Y", "Z">>

toUpperCaseChar(c) ==
  IF \E m \in 1..Len(LowerCase) : LowerCase[m] = c
    THEN UpperCase[CHOOSE m \in 1..Len(LowerCase) : LowerCase[m] = c]
    ELSE c

(* s.toUpperCase() *)
toUpperCase(s) == [k \in 1..Len(s) |-> toUpperCaseChar(s[k])]

(* ---------------------------------------------------------------------- *)
(* Tokens                                                                 *)
(* ---------------------------------------------------------------------- *)
TokenType == {"logical-operator", "key", "value", "quote", "parenthesis", "equals", "text"}

Token(type, val, start, end) == [type |-> type, value |-> val, start |-> start, end |-> end]

logicalOperators == << <<"A", "N", "D">>, <<"O", "R">>, <<"N", "O", "T">> >>

WhitespaceChars == {" ", "\t", "\n", "\r", "\f"}

(* /\s/.test(char) *)
isWhitespace(char) == char \in WhitespaceChars

QuoteChars == {"\"", "'", RDQUO}

(* ---------------------------------------------------------------------- *)
(* escapeHtml                                                             *)
(* ---------------------------------------------------------------------- *)
RECURSIVE replaceAll(_, _, _)
(* s.replace(/ch/g, rep) *)
replaceAll(s, ch, rep) ==
  IF s = <<>> THEN <<>>
  ELSE (IF Head(s) = ch THEN rep ELSE <<Head(s)>>) \o replaceAll(Tail(s), ch, rep)

(* Mutant: `<` is not replaced. *)
escapeHtmlKeepsLt(unsafe) ==
  replaceAll(
    replaceAll(
      replaceAll(
        replaceAll(unsafe, "&", <<"&", "a", "m", "p", ";">>),
        ">", <<"&", "g", "t", ";">>),
      "\"", <<"&", "q", "u", "o", "t", ";">>),
    "'", <<"&", "#", "0", "3", "9", ";">>)

(* Mutant: `&` is replaced last, after the entities were introduced. *)
escapeHtmlAmpLast(unsafe) ==
  replaceAll(
    replaceAll(
      replaceAll(
        replaceAll(
          replaceAll(unsafe, "<", <<"&", "l", "t", ";">>),
          ">", <<"&", "g", "t", ";">>),
        "\"", <<"&", "q", "u", "o", "t", ";">>),
      "'", <<"&", "#", "0", "3", "9", ";">>),
    "&", <<"&", "a", "m", "p", ";">>)

escapeHtml(unsafe) ==
  replaceAll(
    replaceAll(
      replaceAll(
        replaceAll(
          replaceAll(unsafe, "&", <<"&", "a", "m", "p", ";">>),
          "<", <<"&", "l", "t", ";">>),
        ">", <<"&", "g", "t", ";">>),
      "\"", <<"&", "q", "u", "o", "t", ";">>),
    "'", <<"&", "#", "0", "3", "9", ";">>)

(* The characters of a token type, as the template literal inserts them. *)
TypeChars(type) ==
  CASE type = "logical-operator" -> <<"l", "o", "g", "i", "c", "a", "l", "-", "o", "p", "e", "r", "a", "t", "o", "r">>
    [] type = "key" -> <<"k", "e", "y">>
    [] type = "value" -> <<"v", "a", "l", "u", "e">>
    [] type = "quote" -> <<"q", "u", "o", "t", "e">>
    [] type = "parenthesis" -> <<"p", "a", "r", "e", "n", "t", "h", "e", "s", "i", "s">>
    [] type = "equals" -> <<"e", "q", "u", "a", "l", "s">>
    [] type = "text" -> <<"t", "e", "x", "t">>

SpanOpen(type) == <<"<", "s", "p", "a", "n", " ", "c", "l", "a", "s", "s", "=", "\"", "t", "o", "k", "e", "n", "-">> \o TypeChars(type) \o <<"\"", ">">>

SpanClose == <<"<", "/", "s", "p", "a", "n", ">">>

(* `<span class="token-${token.type}">${escapeHtml(token.value)}</span>` *)
TokenMarkup(token) == SpanOpen(token.type) \o escapeHtml(token.value) \o SpanClose

(* ---------------------------------------------------------------------- *)
(* The rules of the scan loop, each giving the token it pushes (tok, or    *)
(* none when push is FALSE) and the cursor it leaves (next).               *)
(* ---------------------------------------------------------------------- *)
ParenthesisRule(t, p) ==
  [push |-> TRUE, tok |-> Token("parenthesis", <<charAt(t, p)>>, p, p + 1), next |-> p + 1]

EqualsRule(t, p) ==
  [push |-> TRUE, tok |-> Token("equals", <<"=">>, p, p + 1), next |-> p + 1]

RECURSIVE QuoteScanNoEscape(_, _, _)
(* Mutant: a backslash before the quote character is not looked at. *)
QuoteScanNoEscape(t, quoteType, j) ==
  IF j < Len(t) /\ charAt(t, j) # quoteType
    THEN QuoteScanNoEscape(t, quoteType, j + 1)
    ELSE j

RECURSIVE QuoteScan(_, _, _)
(* while (i < n && (text[i] !== quoteType || (i > 0 && text[i - 1] === '\\'))) i++ *)
QuoteScan(t, quoteType, j) ==
  IF j < Len(t) /\ (charAt(t, j) # quoteType \/ (j > 0 /\ charAt(t, j - 1) = "\\"))
    THEN QuoteScan(t, quoteType, j + 1)
    ELSE j

(* Mutant: the cursor is left on the closing quote. *)
QuoteRuleStaysOnClose(t, p) ==
  LET quoteType == charAt(t, p)
      j == QuoteScan(t, quoteType, p + 1)
  IN IF j < Len(t) /\ charAt(t, j) = quoteType
       THEN [push |-> TRUE, tok |-> Token("quote", substring(t, p, j + 1), p, j + 1),
             next |-> j]
       ELSE [push |-> TRUE, tok |-> Token("quote", substring(t, p, Len(t)), p, Len(t)),
             next |-> Len(t)]

(* Mutant: the stored content of a closed quote misses the closing quote. *)
QuoteRuleShortContent(t, p) ==
  LET quoteType == charAt(t, p)
      j == QuoteScan(t, quoteType, p + 1)
  IN IF j < Len(t) /\ charAt(t, j) = quoteType
       THEN [push |-> TRUE, tok |-> Token("quote", substring(t, p, j), p, j + 1),
             next |-> j + 1]
       ELSE [push |-> TRUE, tok |-> Token("quote", substring(t, p, Len(t)), p, Len(t)),
             next |-> Len(t)]

QuoteRule(t, p) ==
  LET quoteType == charAt(t, p)
      start == p
      j == QuoteScan(t, quoteType, p + 1)
  IN IF j < Len(t) /\ charAt(t, j) = quoteType
       THEN [push |-> TRUE, tok |-> Token("quote", substring(t, start, j + 1), start, j + 1),
             next |-> j + 1]
       ELSE [push |-> TRUE, tok |-> Token("quote", substring(t, start, Len(t)), start, Len(t)),
             next |-> Len(t)]

(* Mutant: the character after the word is not looked at. *)
OperatorAcceptedNoAfter(t, p, op) ==
  /\ toUpperCase(substr(t, p, Len(op))) = op
  /\ (p = 0 \/ isWhitespace(charAt(t, p - 1)))

(* The test of one operator word at the cursor: the match and the two      *)
(* whole-word conditions.                                                  *)
OperatorAccepted(t, p, op) ==
  /\ toUpperCase(substr(t, p, Len(op))) = op
  /\ (p = 0 \/ isWhitespace(charAt(t, p - 1)))
  /\ (p + Len(op) >= Len(t) \/ isWhitespace(charAt(t, p + Len(op))))

(* Index in logicalOperators of the first accepted word, 0 when none.      *)
matchedOperator(t, p) ==
  IF \E k \in 1..Len(logicalOperators) : OperatorAccepted(t, p, logicalOperators[k])
    THEN CHOOSE k \in 1..Len(logicalOperators) :
           /\ OperatorAccepted(t, p, logicalOperators[k])
           /\ \A m \in 1..(k - 1) : ~OperatorAccepted(t, p, logicalOperators[m])
    ELSE 0

OperatorRule(t, p) ==
  LET op == logicalOperators[matchedOperator(t, p)]
  IN [push |-> TRUE,
      tok |-> Token("logical-operator", substring(t, p, p + Len(op)), p, p + Len(op)),
      next |-> p + Len(op)]

RECURSIVE FindEquals(_, _)
(* while (equalsPos < n && text[equalsPos] !== '=') equalsPos++ *)
FindEquals(t, equalsPos) ==
  IF equalsPos < Len(t) /\ charAt(t, equalsPos) # "="
    THEN FindEquals(t, equalsPos + 1)
    ELSE equalsPos

(* Mutant: the whitespace before the equals sign is kept in the key. *)
TrimKeyEndKeepsSpace(t, keyEnd, keyStart) == keyEnd

RECURSIVE TrimKeyEnd(_, _, _)
(* while (keyEnd > keyStart && isWhitespace(text[keyEnd - 1])) keyEnd-- *)
TrimKeyEnd(t, keyEnd, keyStart) ==
  IF keyEnd > keyStart /\ isWhitespace(charAt(t, keyEnd - 1))
    THEN TrimKeyEnd(t, keyEnd - 1, keyStart)
    ELSE keyEnd

(* Mutant: the cursor is not moved past the key. *)
KeyRuleNoAdvance(t, p) ==
  LET equalsPos == FindEquals(t, p)
      keyEnd == TrimKeyEnd(t, equalsPos, p)
  IN IF p < Len(t) - 1 /\ equalsPos < Len(t) /\ keyEnd > p
       THEN [taken |-> TRUE, push |-> TRUE,
             tok |-> Token("key", substring(t, p, keyEnd), p, keyEnd), next |-> p]
       ELSE [taken |-> FALSE]

(* The key lookahead: taken is FALSE when the rule falls through to bare   *)
(* text.                                                                   *)
KeyRule(t, p) ==
  IF p < Len(t) - 1
    THEN LET equalsPos == FindEquals(t, p)
         IN IF equalsPos < Len(t) /\ charAt(t, equalsPos) = "="
              THEN LET keyStart == p
                       keyEnd == TrimKeyEnd(t, equalsPos, keyStart)
                   IN IF keyEnd > keyStart
                        THEN [taken |-> TRUE, push |-> TRUE,
                              tok |-> Token("key", substring(t, keyStart, keyEnd), keyStart, keyEnd),
                              next |-> keyEnd]
                        ELSE [taken |-> FALSE]
              ELSE [taken |-> FALSE]
    ELSE [taken |-> FALSE]

RECURSIVE TextRunEnd(_, _)
TextRunEnd(t, j) ==
  IF /\ j < Len(t)
     /\ ~isWhitespace(charAt(t, j))
     /\ charAt(t, j) # "("
     /\ charAt(t, j) # ")"
     /\ charAt(t, j) # "="
     /\ charAt(t, j) # "\""
     /\ charAt(t, j) # "'"
     /\ charAt(t, j) # RDQUO
    THEN TextRunEnd(t, j + 1)
    ELSE j

(* Mutant: the run also consumes the delimiter that ended it. *)
TextRuleEatsDelimiter(t, p) ==
  LET e == TextRunEnd(t, p)
  IN [push |-> e > p, tok |-> Token("text", substring(t, p, e), p, e), next |-> e + 1]

TextRule(t, p) ==
  LET start == p
      e == TextRunEnd(t, p)
  IN [push |-> e > start, tok |-> Token("text", substring(t, start, e), start, e), next |-> e]

(* ---------------------------------------------------------------------- *)
(* The inputs of handleChange                                             *)
(* ---------------------------------------------------------------------- *)
(* What one change event appends to the text: a keystroke or a typed word. *)
Keystrokes ==
  { <<" ">>, <<"(">>, <<"=">>, <<"\"">>, <<"'">>, <<"\\">>, <<"x">>, <<"<">>, <<"&">>,
    <<"O", "R">>, <<"o", "r">> }

(* Whole texts pasted into the empty field. *)
Pasted ==
  { <<"A", "N", "D">>, <<"A", "N", "D", "R", "O", "I", "D">>, <<"k", "e", "y", "=", "\"", "a", " ", "\\", "\"", "b", "\\", "\"", " ", "c", "\"">>, <<"k", "e", "y", "=", "\"", "o", "p", "e", "n">>, <<"s", "t", "a", "t", "u", "s", " ", "=", " ", "a", "c", "t", "i", "v", "e">>,
    <<"<", "s", "c", "r", "i", "p", "t", ">">>, <<"(", "s", "t", "a", "t", "u", "s", " ", "=", " ", "x", ")", " ", "=", " ", "y">>, <<"x", " ", "O", "R", " ", "=">>, <<"a", " ", "a", "n", "d", " ", "b">>, <<"N", "O", "T", " ", "(", "a", ">", "1", ")">>,
    <<RDQUO, "a", " ", "b", RDQUO, " ", "'", "c">>, <<"a", "\t", "=", "\t", "b">>, <<"k", " ", "=", " ", "\"", "v", "\\", "\"", " ", "A", "N", "D">>, <<" ", "N", "O", "T", " ", "k", " ", "=", " ", "\"", "v", " ", "w", "\"", " ">> }

VARIABLES
  value,            \* useState(''): the text of the textarea
  highlightedHtml,  \* useState(''): the markup shown in the preview
  pc,               \* "scan", "render": inside parseAndHighlight; "idle": between events
  i,                \* the cursor of the scan loop
  tokens,           \* the tokens pushed so far
  result,           \* the markup built so far
  lastPos,          \* the renderer's cursor
  k                 \* the index of the token forEach is at

vars == <<value, highlightedHtml, pc, i, tokens, result, lastPos, k>>

n == Len(value)

(* The component is mounted with value = '' and the effect runs            *)
(* parseAndHighlight(value).                                               *)
Init ==
  /\ value = <<>>
  /\ highlightedHtml = <<>>
  /\ pc = "scan"
  /\ i = 0
  /\ tokens = <<>>
  /\ result = <<>>
  /\ lastPos = 0
  /\ k = 1

(* handleChange sets value; the effect then runs parseAndHighlight(value). *)
HandleChange ==
  /\ pc = "idle"
  /\ \E v \in { value \o s : s \in { s \in Keystrokes : Len(value) + Len(s) <= MaxLen } }
              \cup (IF value = <<>> THEN Pasted ELSE {}) :
       value' = v
  /\ pc' = "scan"
  /\ i' = 0
  /\ tokens' = <<>>
  /\ UNCHANGED <<highlightedHtml, result, lastPos, k>>

Scanning == pc = "scan" /\ i < n

(* One iteration of the scan loop that applies rule r. *)
Apply(r) ==
  /\ tokens' = IF r.push THEN Append(tokens, r.tok) ELSE tokens
  /\ i' = r.next
  /\ UNCHANGED <<value, highlightedHtml, pc, result, lastPos, k>>

SkipWhitespace ==
  /\ Scanning
  /\ isWhitespace(charAt(value, i))
  /\ i' = i + 1
  /\ UNCHANGED <<value, highlightedHtml, pc, tokens, result, lastPos, k>>

Parenthesis ==
  /\ Scanning
  /\ charAt(value, i) \in {"(", ")"}
  /\ Apply(ParenthesisRule(value, i))

EqualsSign ==
  /\ Scanning
  /\ charAt(value, i) = "="
  /\ Apply(EqualsRule(value, i))

Quote ==
  /\ Scanning
  /\ charAt(value, i) \in QuoteChars
  /\ Apply(QuoteRule(value, i))

(* The cursor is past rules 1-4. *)
Ordinary ==
  /\ Scanning
  /\ ~isWhitespace(charAt(value, i))
  /\ charAt(value, i) \notin {"(", ")", "="} \cup QuoteChars

LogicalOperator ==
  /\ Ordinary
  /\ matchedOperator(value, i) # 0
  /\ Apply(OperatorRule(value, i))

Key ==
  /\ Ordinary
  /\ matchedOperator(value, i) = 0
  /\ KeyRule(value, i).taken
  /\ Apply(KeyRule(value, i))

BareText ==
  /\ Ordinary
  /\ matchedOperator(value, i) = 0
  /\ ~KeyRule(value, i).taken
  /\ Apply(TextRule(value, i))

(* The loop ends; let result = ''; let lastPos = 0. *)
StartRender ==
  /\ pc = "scan"
  /\ ~(i < n)
  /\ pc' = "render"
  /\ result' = <<>>
  /\ lastPos' = 0
  /\ k' = 1
  /\ UNCHANGED <<value, highlightedHtml, i, tokens>>

(* One call of the forEach callback. *)
RenderToken ==
  /\ pc = "render"
  /\ k <= Len(tokens)
  /\ LET token == tokens[k]
         filler == IF token.start > lastPos
                     THEN escapeHtml(substring(value, lastPos, token.start))
                     ELSE <<>>
     IN /\ result' = result \o filler \o TokenMarkup(token)
        /\ lastPos' = token.end
  /\ k' = k + 1
  /\ UNCHANGED <<value, highlightedHtml, pc, i, tokens>>

(* The remaining text, the return, and setHighlightedHtml of the effect.   *)
RenderTail ==
  /\ pc = "render"
  /\ k > Len(tokens)
  /\ highlightedHtml' =
       result \o (IF lastPos < n THEN escapeHtml(substring(value, lastPos, n)) ELSE <<>>)
  /\ pc' = "idle"
  /\ UNCHANGED <<value, i, tokens, result, lastPos, k>>

Next ==
  \/ HandleChange
  \/ SkipWhitespace
  \/ Parenthesis
  \/ EqualsSign
  \/ Quote
  \/ LogicalOperator
  \/ Key
  \/ BareText
  \/ StartRender
  \/ RenderToken
  \/ RenderTail

Spec == Init /\ [][Next]_vars


(* ---------------------------------------------------------------------- *)
(* Properties                                                             *)
(* ---------------------------------------------------------------------- *)
HasType(type) == \E m \in 1..Len(tokens) : tokens[m].type = type

(* C1: every token has 0 <= start < end <= length(input), and consecutive  *)
(* tokens do not overlap: token[m].end <= token[m+1].start.                *)
C1_TokenSpansOrdered ==
  /\ \A m \in 1..Len(tokens) :
       /\ 0 <= tokens[m].start
       /\ tokens[m].start < tokens[m].end
       /\ tokens[m].end <= n
  /\ \A m \in 1..(Len(tokens) - 1) : tokens[m].end <= tokens[m + 1].start

C1_Witness ==
  /\ pc = "render"
  /\ Len(tokens) >= 3
  /\ \E m \in 1..(Len(tokens) - 1) : tokens[m].end < tokens[m + 1].start
  /\ \E m \in 1..(Len(tokens) - 1) : tokens[m].end = tokens[m + 1].start

RECURSIVE Reassemble(_, _, _)
(* The gap before each token, each token's stored content, and the         *)
(* trailing gap, in order, with no escaping or wrapping.                   *)
Reassemble(t, toks, from) ==
  IF toks = <<>>
    THEN SubSeq(t, from + 1, Len(t))
    ELSE SubSeq(t, from + 1, Head(toks).start) \o Head(toks).value
           \o Reassemble(t, Tail(toks), Head(toks).end)

(* C2: each token's stored content is input[start:end], and once the scan  *)
(* is over the gaps and the contents, concatenated in order, are the input.*)
C2_ContentAndCoverage ==
  /\ \A m \in 1..Len(tokens) :
       tokens[m].value = SubSeq(value, tokens[m].start + 1, tokens[m].end)
  /\ pc \in {"render", "idle"} => Reassemble(value, tokens, 0) = value

C2_Witness ==
  /\ pc = "render"
  /\ Len(tokens) >= 2
  /\ tokens[1].start > 0
  /\ tokens[Len(tokens)].end < n
  /\ HasType("quote")

(* C5: every iteration of the scan loop moves the cursor strictly forward  *)
(* and not past the end, and the loop is left only with i = length(input). *)
C5_ScanAdvances ==
  [][ /\ (pc = "scan" /\ i < n) => (pc' = "scan" /\ i' > i /\ i' <= n)
      /\ (pc = "scan" /\ pc' # "scan") => i = n ]_vars

C5_Witness ==
  /\ pc = "render"
  /\ i = n
  /\ HasType("key")
  /\ HasType("text")
  /\ HasType("quote")

(* C10: every non-whitespace character the cursor has passed lies inside   *)
(* exactly one token span, so the filler gaps hold whitespace only.        *)
C10_GapsAreWhitespace ==
  \A p \in 0..(Min(i, n) - 1) :
    charAt(value, p) \notin WhitespaceChars =>
      Cardinality({m \in 1..Len(tokens) : tokens[m].start <= p /\ p < tokens[m].end}) = 1

C10_Witness ==
  /\ pc = "render"
  /\ Len(tokens) >= 3
  /\ tokens[1].start > 0
  /\ tokens[Len(tokens)].end < n
  /\ \E m \in 1..(Len(tokens) - 1) : tokens[m].end < tokens[m + 1].start
  /\ HasType("key")

(* ---------------------------------------------------------------------- *)
(* The markup read back                                                   *)
(* ---------------------------------------------------------------------- *)
RECURSIVE AfterTag(_)
(* What follows the first `>` of s. *)
AfterTag(s) ==
  IF s = <<>> THEN <<>>
  ELSE IF Head(s) = ">" THEN Tail(s) ELSE AfterTag(Tail(s))

RECURSIVE StripTags(_)
(* The markup with every tag, from a `<` to the next `>`, removed. *)
StripTags(s) ==
  IF s = <<>> THEN <<>>
  ELSE IF Head(s) = "<" THEN StripTags(AfterTag(Tail(s)))
  ELSE <<Head(s)>> \o StripTags(Tail(s))

RECURSIVE TagsOf(_)
(* The tags of the markup, in order. *)
TagsOf(s) ==
  IF s = <<>> THEN <<>>
  ELSE IF Head(s) = "<"
    THEN <<SubSeq(s, 1, Len(s) - Len(AfterTag(Tail(s))))>> \o TagsOf(AfterTag(Tail(s)))
  ELSE TagsOf(Tail(s))

WrapperTags == {SpanOpen(type) : type \in TokenType} \cup {SpanClose}

Entities ==
  << [char |-> "&", entity |-> <<"&", "a", "m", "p", ";">>],
     [char |-> "<", entity |-> <<"&", "l", "t", ";">>],
     [char |-> ">", entity |-> <<"&", "g", "t", ";">>],
     [char |-> "\"", entity |-> <<"&", "q", "u", "o", "t", ";">>],
     [char |-> "'", entity |-> <<"&", "#", "0", "3", "9", ";">>] >>

StartsWith(s, prefix) == Len(prefix) <= Len(s) /\ SubSeq(s, 1, Len(prefix)) = prefix

StartsEntity(s) == \E e \in 1..Len(Entities) : StartsWith(s, Entities[e].entity)

RECURSIVE UnescapeHtml(_)
(* Every entity of s decoded back to its character, left to right. *)
UnescapeHtml(s) ==
  IF s = <<>> THEN <<>>
  ELSE IF StartsEntity(s)
    THEN LET e == CHOOSE e \in 1..Len(Entities) : StartsWith(s, Entities[e].entity)
         IN <<Entities[e].char>> \o UnescapeHtml(SubSeq(s, Len(Entities[e].entity) + 1, Len(s)))
  ELSE <<Head(s)>> \o UnescapeHtml(Tail(s))

Contains(s, c) == \E p \in 1..Len(s) : s[p] = c

(* C3, as stated: the markup with the wrapper tags stripped is the text.   *)
C3_StrippedEqualsText ==
  pc = "idle" => StripTags(highlightedHtml) = value

(* C3, amended: the markup with the wrapper tags stripped and the five     *)
(* entities decoded is the text.                                           *)
C3_StrippedUnescapedEqualsText ==
  pc = "idle" => UnescapeHtml(StripTags(highlightedHtml)) = value

C3_Witness ==
  /\ pc = "idle"
  /\ Contains(value, "&")
  /\ Contains(value, "<")
  /\ Contains(value, "\"")
  /\ Len(tokens) >= 2

(* C4: in the returned markup every tag is a wrapper tag, the text outside *)
(* the tags has no `<`, `>`, `"` or `'`, every `&` there starts one of the *)
(* five entities, and `<script>` is rendered as `&lt;script&gt;`.          *)
C4_OutputEscaped ==
  pc = "idle" =>
    LET plain == StripTags(highlightedHtml)
        tags == TagsOf(highlightedHtml)
    IN /\ \A m \in 1..Len(tags) : tags[m] \in WrapperTags
       /\ \A p \in 1..Len(plain) :
            /\ plain[p] \notin {"<", ">", "\"", "'"}
            /\ plain[p] = "&" => StartsEntity(SubSeq(plain, p, Len(plain)))
       /\ value = <<"<", "s", "c", "r", "i", "p", "t", ">">> =>
            highlightedHtml = SpanOpen("text") \o <<"&", "l", "t", ";", "s", "c", "r", "i", "p", "t", "&", "g", "t", ";">> \o SpanClose

C4_Witness ==
  /\ pc = "idle"
  /\ value = <<"<", "s", "c", "r", "i", "p", "t", ">">>
  /\ highlightedHtml # <<>>

(* ---------------------------------------------------------------------- *)
(* The rules, stated from the text                                        *)
(* ---------------------------------------------------------------------- *)
OperatorWords == { <<"A", "N", "D">>, <<"O", "R">>, <<"N", "O", "T">> }

(* The operator word op stands at p, whatever its casing, with whitespace  *)
(* or the input boundary on both sides.                                    *)
WholeWordAt(t, p, op) ==
  /\ p + Len(op) <= Len(t)
  /\ toUpperCase(SubSeq(t, p + 1, p + Len(op))) = op
  /\ (p = 0 \/ t[p] \in WhitespaceChars)
  /\ (p + Len(op) = Len(t) \/ t[p + Len(op) + 1] \in WhitespaceChars)

WholeWordOperatorAt(t, p) == \E op \in OperatorWords : WholeWordAt(t, p, op)

(* C6: a logical-operator token covers AND, OR or NOT in any casing, with  *)
(* whitespace or the input boundary on both sides, and keeps the casing of *)
(* the input; AND is one logical-operator token, ANDROID one text token.   *)
C6_WholeWordOperator ==
  /\ \A m \in 1..Len(tokens) :
       tokens[m].type = "logical-operator" =>
         /\ WholeWordOperatorAt(value, tokens[m].start)
         /\ toUpperCase(SubSeq(value, tokens[m].start + 1, tokens[m].end)) \in OperatorWords
         /\ tokens[m].value = SubSeq(value, tokens[m].start + 1, tokens[m].end)
  /\ (pc = "render" /\ value = <<"A", "N", "D">>) =>
       tokens = <<Token("logical-operator", <<"A", "N", "D">>, 0, 3)>>
  /\ (pc = "render" /\ value = <<"A", "N", "D", "R", "O", "I", "D">>) =>
       tokens = <<Token("text", <<"A", "N", "D", "R", "O", "I", "D">>, 0, 7)>>

C6_Witness ==
  /\ pc = "render"
  /\ \E m \in 1..Len(tokens) :
       /\ tokens[m].type = "logical-operator"
       /\ tokens[m].value # toUpperCase(tokens[m].value)
       /\ tokens[m].start > 0
       /\ tokens[m].end < n

(* The quote opened at s is closed at j. *)
ClosesQuote(t, s, j) == t[j + 1] = t[s + 1] /\ t[j] # "\\"

(* Where the quote token opened at s ends. *)
QuoteEnd(t, s) ==
  IF \E j \in (s + 1)..(Len(t) - 1) : ClosesQuote(t, s, j)
    THEN 1 + CHOOSE j \in (s + 1)..(Len(t) - 1) :
               /\ ClosesQuote(t, s, j)
               /\ \A j2 \in (s + 1)..(j - 1) : ~ClosesQuote(t, s, j2)
    ELSE Len(t)

EscapedQuoteText == <<"k", "e", "y", "=", "\"", "a", " ", "\\", "\"", "b", "\\", "\"", " ", "c", "\"">>

OpenQuoteText == <<"k", "e", "y", "=", "\"", "o", "p", "e", "n">>

(* C7: with the cursor on a quote character at s, the step pushes exactly  *)
(* one quote token, from s to just after the first later occurrence of the *)
(* same character that no backslash precedes, or to the end of the input.  *)
C7_QuotedLiteral ==
  [][ /\ (pc = "scan" /\ i < n /\ charAt(value, i) \in QuoteChars) =>
           /\ tokens' = Append(tokens,
                Token("quote", SubSeq(value, i + 1, QuoteEnd(value, i)), i, QuoteEnd(value, i)))
           /\ i' = QuoteEnd(value, i)
      /\ (pc = "render" /\ value = EscapedQuoteText) =>
           /\ Len(tokens) = 3
           /\ tokens[3] = Token("quote", <<"\"", "a", " ", "\\", "\"", "b", "\\", "\"", " ", "c", "\"">>, 4, 15)
      /\ (pc = "render" /\ value = OpenQuoteText) =>
           /\ Len(tokens) = 3
           /\ tokens[3] = Token("quote", <<"\"", "o", "p", "e", "n">>, 4, 9) ]_vars

C7_Witness ==
  /\ pc = "render"
  /\ value = EscapedQuoteText
  /\ tokens[Len(tokens)].type = "quote"
  /\ tokens[Len(tokens)].end = n

(* The cursor p is on a character no earlier rule takes and an equals sign *)
(* occurs later.                                                           *)
KeyCase(t, p) ==
  /\ t[p + 1] \notin WhitespaceChars \cup {"(", ")", "="} \cup QuoteChars
  /\ ~WholeWordOperatorAt(t, p)
  /\ \E q \in (p + 1)..(Len(t) - 1) : t[q + 1] = "="

(* q is the first equals sign at or after p. *)
IsNextEquals(t, p, q) ==
  /\ q \in p..(Len(t) - 1)
  /\ t[q + 1] = "="
  /\ \A r \in p..(q - 1) : t[r + 1] # "="

(* e is where the span from p to the equals sign at q ends once the        *)
(* whitespace directly before q is trimmed off.                            *)
IsTrimmedEnd(t, p, q, e) ==
  /\ e \in p..q
  /\ \A r \in e..(q - 1) : t[r + 1] \in WhitespaceChars
  /\ e > p => t[e] \notin WhitespaceChars

StatusText == <<"s", "t", "a", "t", "u", "s", " ", "=", " ", "a", "c", "t", "i", "v", "e">>

(* C8: in the key case the step pushes a key token from the cursor to the  *)
(* next equals sign, trailing whitespace trimmed; the token after a key is *)
(* the equals token at that sign; `status = active` is key, equals, text.  *)
C8_KeyLookahead ==
  [][ /\ (pc = "scan" /\ i < n /\ KeyCase(value, i)) =>
           \E q \in i..(n - 1), e \in i..(n - 1) :
             /\ IsNextEquals(value, i, q)
             /\ IsTrimmedEnd(value, i, q, e)
             /\ e > i
             /\ tokens' = Append(tokens, Token("key", SubSeq(value, i + 1, e), i, e))
      /\ \A m \in 1..Len(tokens') :
           tokens'[m].type = "key" =>
             \E q \in 0..(Len(value') - 1) :
               /\ IsNextEquals(value', tokens'[m].end, q)
               /\ IF m < Len(tokens')
                    THEN tokens'[m + 1] = Token("equals", <<"=">>, q, q + 1)
                    ELSE pc' = "scan" /\ i' <= q
      /\ (pc = "render" /\ value = StatusText) =>
           tokens = << Token("key", <<"s", "t", "a", "t", "u", "s">>, 0, 6),
                       Token("equals", <<"=">>, 7, 8),
                       Token("text", <<"a", "c", "t", "i", "v", "e">>, 9, 15) >> ]_vars

C8_Witness ==
  /\ pc = "render"
  /\ value = StatusText
  /\ tokens[1].type = "key"
  /\ tokens[1].end < tokens[2].start

(* C9: no key token's span contains AND, OR or NOT with whitespace or the  *)
(* input boundary on both sides.                                           *)
C9_NoOperatorInsideKey ==
  \A m \in 1..Len(tokens) :
    tokens[m].type = "key" =>
      ~\E p \in tokens[m].start..(tokens[m].end - 1), op \in OperatorWords :
          /\ p + Len(op) <= tokens[m].end
          /\ WholeWordAt(value, p, op)
====
